---------------------------- MODULE Spec2Model ----------------------------
(***************************************************************************)
(* A model of overclock.py: the MSR control layer (register I/O, bit-field *)
(* codec, topology enumeration, turbo and power-limit control), the GUI    *)
(* handlers that drive it, and the ThinkPad fan controller with its        *)
(* firmware watchdog.                                                      *)
(*                                                                         *)
(* A 64-bit register value is the set of the positions of its 1 bits: a    *)
(* Python int n >= 0 is the set {i : bit i of n is 1}. Shifts move the     *)
(* positions, masks select them.                                           *)
(***************************************************************************)
EXTENDS Integers, Sequences, FiniteSets, TLC

VARIABLES
    dev_cpu,        \* /dev/cpu: [present, entries], entries a set of names
    msr,            \* msr[cpu][reg]: the registers behind /dev/cpu/<cpu>/msr
    pre_msr,        \* msr as it was when the last call started
    power_unit_exp, \* self.power_unit is 1 / 2^power_unit_exp watts
    call,           \* the last call: its name and its arguments
    io,             \* the register reads and writes of the last call, in order
    raised,         \* whether the last call raised (a handler: caught) an error
    msgbox,         \* the message box the last handler showed, or "none"
    turbo_checkbox, \* self.turbo_checkbox.isChecked()
    fan_available,  \* self.fan_available
    fan_level,      \* the level the fan control file reports
    wd_timeout,     \* the firmware watchdog's timeout, 0 when disarmed
    wd_left,        \* seconds until the firmware watchdog expires
    app,            \* "running", "closed" (closeEvent ran) or "killed"
    since_poll,     \* seconds since the refresh timer last fired
    fan_call,       \* the last fan handler: its name and inputs
    fan_log,        \* the fan-file commands of the last fan handler, in order
    by_app,         \* the application has put the fan into a non-auto mode
    reverted        \* the firmware has put the fan back to auto since the
                    \* last apply that wrote a level

msrVars == <<dev_cpu, msr, pre_msr, power_unit_exp, call, io, raised, msgbox,
             turbo_checkbox>>
fanVars == <<fan_available, fan_level, wd_timeout, wd_left, app, since_poll,
             fan_call, fan_log, by_app, reverted>>
vars == <<dev_cpu, msr, pre_msr, power_unit_exp, call, io, raised, msgbox,
          turbo_checkbox,
          fan_available, fan_level, wd_timeout, wd_left, app, since_poll,
          fan_call, fan_log, by_app, reverted>>

(***************************************************************************)
(* Bounds of the model.                                                    *)
(***************************************************************************)
\* Logical CPU ids are 0..MaxCpu.
MaxCpu == 2

(***************************************************************************)
(* Program constants.                                                      *)
(***************************************************************************)
FAN_WATCHDOG_SECONDS == 30
\* The refresh timer's period, in seconds: self.timer.start(1000).
TIMER_SECONDS == 1
\* QIntValidator(20, 42) and the range test of _apply_ratios.
RATIO_MIN == 20
RATIO_MAX == 42
\* Register names (MSR addresses 0x1A0, 0x1AD, 0x610).
IA32_MISC_ENABLE == "IA32_MISC_ENABLE"
MSR_TURBO_RATIO_LIMIT == "MSR_TURBO_RATIO_LIMIT"
MSR_PKG_POWER_LIMIT == "MSR_PKG_POWER_LIMIT"
Regs == {IA32_MISC_ENABLE, MSR_TURBO_RATIO_LIMIT, MSR_PKG_POWER_LIMIT}

(***************************************************************************)
(* Integers and bit sets.                                                  *)
(***************************************************************************)
\* The bits of a Python int 0 <= n < 2^31.
IntToBits(n) == {i \in 0..30 : (n \div (2 ^ i)) % 2 = 1}

RECURSIVE BitsToInt(_)
\* The int of a bit set whose positions are all below 31.
BitsToInt(s) ==
    IF s = {} THEN 0
    ELSE LET b == CHOOSE x \in s : TRUE
         IN  (2 ^ b) + BitsToInt(s \ {b})

\* bits(value, hi, lo): (value >> lo) & ((1 << (hi - lo + 1)) - 1)
bits(value, hi, lo) ==
    LET shifted == {b - lo : b \in {x \in value : x >= lo}}
        mask    == 0..(hi - lo)
    IN  shifted \cap mask

\* set_bits whose field is not masked: (orig & ~mask) | (field << lo)
set_bits_spill(orig, hi, lo, field) ==
    (orig \ (lo..hi)) \cup {b + lo : b \in field}

\* set_bits(orig, hi, lo, field):
\*   mask = ((1 << (hi - lo + 1)) - 1) << lo
\*   (orig & ~mask) | ((field << lo) & mask)
set_bits(orig, hi, lo, field) ==
    LET mask == lo..hi
    IN  (orig \ mask) \cup ({b + lo : b \in field} \cap mask)

(***************************************************************************)
(* Topology: online_cpus().                                                *)
(***************************************************************************)
DigitValue == [d \in {"0", "1", "2", "3", "4", "5", "6", "7", "8", "9"} |->
                 CASE d = "0" -> 0 [] d = "1" -> 1 [] d = "2" -> 2
                   [] d = "3" -> 3 [] d = "4" -> 4 [] d = "5" -> 5
                   [] d = "6" -> 6 [] d = "7" -> 7 [] d = "8" -> 8
                   [] d = "9" -> 9]

\* str.isdigit(): not empty, and every character a digit.
isdigit(entry) ==
    Len(entry) > 0 /\ \A i \in 1..Len(entry) : entry[i] \in DOMAIN DigitValue

RECURSIVE digits_value(_)
\* The number a string of digits denotes.
digits_value(entry) ==
    IF Len(entry) = 0 THEN 0
    ELSE 10 * digits_value(SubSeq(entry, 1, Len(entry) - 1))
         + DigitValue[entry[Len(entry)]]

\* int(text) raises ValueError: text is not digits with an optional sign.
int_raises(text) ==
    ~isdigit(IF Len(text) > 0 /\ text[1] \in {"+", "-"} THEN Tail(text) ELSE text)

\* int(text) of a string of digits with an optional sign.
int(text) ==
    IF Len(text) > 0 /\ text[1] = "-" THEN 0 - digits_value(Tail(text))
    ELSE IF Len(text) > 0 /\ text[1] = "+" THEN digits_value(Tail(text))
    ELSE digits_value(text)

RECURSIVE sorted_desc(_)
\* A set of ints as a sequence, descending.
sorted_desc(S) ==
    IF S = {} THEN <<>>
    ELSE LET m == CHOOSE x \in S : \A y \in S : x >= y
         IN  <<m>> \o sorted_desc(S \ {m})

RECURSIVE sorted(_)
\* sorted(cpus): a set of ints as a sequence, ascending.
sorted(S) ==
    IF S = {} THEN <<>>
    ELSE LET m == CHOOSE x \in S : \A y \in S : x <= y
         IN  <<m>> \o sorted(S \ {m})

\* online_cpus(): the numeric entries of /dev/cpu, as ints, sorted. The
\* caller sees os.listdir raise when the directory is absent.
online_cpus_raises(dir) == ~dir.present
online_cpus(dir) == sorted({int(e) : e \in {x \in dir.entries : isdigit(x)}})

\* The CPUs that have a register device /dev/cpu/<cpu>/msr.
HasDevice(dir, cpu) ==
    dir.present /\ \E e \in dir.entries : isdigit(e) /\ int(e) = cpu

(***************************************************************************)
(* Register I/O. A call threads a record st = [msr, io, raised] through    *)
(* its reads and writes; rbad and wbad are the CPUs whose register device  *)
(* fails a read or a write during the call (os.open, os.read or os.write   *)
(* raising OSError). A failed write leaves the register as it was.         *)
(***************************************************************************)
IoEntry(op, reg, cpu, value, ok) ==
    [op |-> op, reg |-> reg, cpu |-> cpu, value |-> value, ok |-> ok]

\* struct.pack("<Q", value) raises unless 0 <= value < 2^64.
FitsU64(value) == value \subseteq 0..63

\* read_msr(msr, cpu) can return a value.
read_msr_ok(reg, cpu, rbad) == HasDevice(dev_cpu, cpu) /\ cpu \notin rbad

\* read_msr(msr, cpu): the state after the read (raised when it failed).
read_msr(st, reg, cpu, rbad) ==
    IF read_msr_ok(reg, cpu, rbad)
    THEN [st EXCEPT !.io = Append(@, IoEntry("read", reg, cpu, st.msr[cpu][reg], TRUE))]
    ELSE [st EXCEPT !.io = Append(@, IoEntry("read", reg, cpu, {}, FALSE)),
                    !.raised = TRUE]

\* write_msr(msr, value, cpu)
write_msr(st, reg, value, cpu, wbad) ==
    IF HasDevice(dev_cpu, cpu) /\ cpu \notin wbad /\ FitsU64(value)
    THEN [st EXCEPT !.msr[cpu][reg] = value,
                    !.io = Append(@, IoEntry("write", reg, cpu, value, TRUE))]
    ELSE [st EXCEPT !.io = Append(@, IoEntry("write", reg, cpu, value, FALSE)),
                    !.raised = TRUE]

RECURSIVE write_loop(_, _, _, _, _, _)
\* for cpu in cpus[i..]: write_msr(msr, value, cpu); an exception ends the loop.
write_loop(st, cpus, i, reg, value, wbad) ==
    IF i > Len(cpus) \/ st.raised THEN st
    ELSE write_loop(write_msr(st, reg, value, cpus[i], wbad),
                    cpus, i + 1, reg, value, wbad)

\* write_msr_all_cpus(msr, value)
write_msr_all_cpus(st, reg, value, wbad) ==
    IF online_cpus_raises(dev_cpu) THEN [st EXCEPT !.raised = TRUE]
    ELSE write_loop(st, online_cpus(dev_cpu), 1, reg, value, wbad)

\* The state a call starts from.
Start == [msr |-> msr, io |-> <<>>, raised |-> FALSE, msgbox |-> "none"]

(***************************************************************************)
(* Turbo control.                                                          *)
(***************************************************************************)
\* read_turbo_enabled() can return: it reads CPU 0.
read_turbo_enabled_ok(rbad) == read_msr_ok(IA32_MISC_ENABLE, 0, rbad)

\* read_turbo_enabled(): not bool(bits(val, 38, 38)), of CPU 0's register.
read_turbo_enabled(m) == bits(m[0][IA32_MISC_ENABLE], 38, 38) = {}

\* The value set_turbo_enabled writes back for a register that held val.
turbo_value(val, enable) ==
    IF enable THEN set_bits(val, 38, 38, IntToBits(0))
              ELSE set_bits(val, 38, 38, IntToBits(1))

RECURSIVE turbo_loop(_, _, _, _, _, _)
\* The loop of set_turbo_enabled from cpus[i] on: read, modify, write.
turbo_loop(st, cpus, i, enable, rbad, wbad) ==
    IF i > Len(cpus) \/ st.raised THEN st
    ELSE LET cpu == cpus[i]
             st1 == read_msr(st, IA32_MISC_ENABLE, cpu, rbad)
         IN  IF st1.raised THEN st1
             ELSE turbo_loop(
                    write_msr(st1, IA32_MISC_ENABLE,
                              turbo_value(st.msr[cpu][IA32_MISC_ENABLE], enable),
                              cpu, wbad),
                    cpus, i + 1, enable, rbad, wbad)

\* set_turbo_enabled that reads CPU 0 once and broadcasts the result.
set_turbo_enabled_cpu0(st, enable, rbad, wbad) ==
    LET st1 == read_msr(st, IA32_MISC_ENABLE, 0, rbad)
    IN  IF st1.raised THEN st1
        ELSE write_msr_all_cpus(st1, IA32_MISC_ENABLE,
                                turbo_value(st.msr[0][IA32_MISC_ENABLE], enable),
                                wbad)

\* set_turbo_enabled(enable)
set_turbo_enabled(st, enable, rbad, wbad) ==
    IF online_cpus_raises(dev_cpu) THEN [st EXCEPT !.raised = TRUE]
    ELSE turbo_loop(st, online_cpus(dev_cpu), 1, enable, rbad, wbad)

\* The 8 one-byte entries of a turbo-ratio register value:
\* [bits(raw, i * 8 + 7, i * 8) for i in range(8)]
decode_ratios(raw) == [i \in 1..8 |-> BitsToInt(bits(raw, (i - 1) * 8 + 7, (i - 1) * 8))]

RECURSIVE encode_from(_, _, _)
\* The loop of write_turbo_ratios from entry i on, val being the value so far.
encode_from(val, ratios, i) ==
    IF i > Len(ratios) THEN val
    ELSE encode_from(set_bits(val, (i - 1) * 8 + 7, (i - 1) * 8, IntToBits(ratios[i])),
                     ratios, i + 1)

\* The value write_turbo_ratios builds: it starts from val = 0.
encode_ratios(ratios) == encode_from({}, ratios, 1)

\* write_turbo_ratios(ratios)
write_turbo_ratios(st, ratios, wbad) ==
    write_msr_all_cpus(st, MSR_TURBO_RATIO_LIMIT, encode_ratios(ratios), wbad)

(***************************************************************************)
(* Power limits.                                                           *)
(***************************************************************************)
\* Python's round() of n / d for ints n >= 0, d > 0: half goes to even.
round(n, d) ==
    LET q == n \div d
        r == n % d
    IN  IF 2 * r < d THEN q
        ELSE IF 2 * r > d THEN q + 1
        ELSE IF q % 2 = 0 THEN q ELSE q + 1

\* A wattage is None, <<>>, or <<m, e>>: the float m / 2^e watts. With
\* power_unit = 1 / 2^k, int(round(watts / power_unit)) is
\* round(m * 2^k / 2^e); the division by a power of two is exact in floats.
None == <<>>
Watts(m, e) == <<m, e>>
raw_watts(w, k) == round(w[1] * (2 ^ k), 2 ^ w[2])

\* read_power_limits that reports whole watts: int(bits(raw, ..) * power_unit).
read_power_limits_whole_watts(raw, k) ==
    [pl1_w       |-> Watts(BitsToInt(bits(raw, 14, 0)) \div (2 ^ k), 0),
     pl1_enabled |-> bits(raw, 15, 15) # {},
     pl2_w       |-> Watts(BitsToInt(bits(raw, 46, 32)) \div (2 ^ k), 0),
     pl2_enabled |-> bits(raw, 47, 47) # {},
     locked      |-> bits(raw, 63, 63) # {}]

\* read_power_limits(power_unit, time_unit) of a register that read raw:
\* bits(raw, 14, 0) * power_unit is bits(raw, 14, 0) / 2^k watts. The two
\* time windows, which no write takes back, are left out.
read_power_limits(raw, k) ==
    [pl1_w       |-> Watts(BitsToInt(bits(raw, 14, 0)), k),
     pl1_enabled |-> bits(raw, 15, 15) # {},
     pl2_w       |-> Watts(BitsToInt(bits(raw, 46, 32)), k),
     pl2_enabled |-> bits(raw, 47, 47) # {},
     locked      |-> bits(raw, 63, 63) # {}]

\* write_pl_watts without its last set_bits: the lock bit is written as read.
pl_value_keep_lock(raw, pl1_w, pl2_w, k) ==
    LET r1 == IF pl1_w # None
              THEN set_bits(set_bits(raw, 14, 0, IntToBits(raw_watts(pl1_w, k))),
                            15, 15, IntToBits(1))
              ELSE raw
        r2 == IF pl2_w # None
              THEN set_bits(set_bits(r1, 46, 32, IntToBits(raw_watts(pl2_w, k))),
                            47, 47, IntToBits(1))
              ELSE r1
    IN  r2

\* The value write_pl_watts writes for a register that read raw.
pl_value(raw, pl1_w, pl2_w, k) ==
    LET r1 == IF pl1_w # None
              THEN set_bits(set_bits(raw, 14, 0, IntToBits(raw_watts(pl1_w, k))),
                            15, 15, IntToBits(1))
              ELSE raw
        r2 == IF pl2_w # None
              THEN set_bits(set_bits(r1, 46, 32, IntToBits(raw_watts(pl2_w, k))),
                            47, 47, IntToBits(1))
              ELSE r1
    IN  set_bits(r2, 63, 63, IntToBits(0))

\* write_pl_watts(pl1_w, pl2_w, power_unit): CPU 0 is read, all are written.
write_pl_watts(st, pl1_w, pl2_w, k, rbad, wbad) ==
    LET st1 == read_msr(st, MSR_PKG_POWER_LIMIT, 0, rbad)
    IN  IF st1.raised THEN st1
        ELSE write_msr_all_cpus(
               st1, MSR_PKG_POWER_LIMIT,
               pl_value(st.msr[0][MSR_PKG_POWER_LIMIT], pl1_w, pl2_w, k), wbad)

(***************************************************************************)
(* The GUI handlers of the register layer. msgbox is "warning" for         *)
(* QMessageBox.warning, "critical" for QMessageBox.critical, "uncaught"    *)
(* when the handler left by an exception it does not catch.                *)
(***************************************************************************)
\* str(n) for 0 <= n <= 999, as the line edits hold it.
DigitChar == <<"0", "1", "2", "3", "4", "5", "6", "7", "8", "9">>
str(n) ==
    IF n < 10 THEN <<DigitChar[n + 1]>>
    ELSE IF n < 100 THEN <<DigitChar[(n \div 10) + 1], DigitChar[(n % 10) + 1]>>
    ELSE <<DigitChar[(n \div 100) + 1], DigitChar[((n \div 10) % 10) + 1],
           DigitChar[(n % 10) + 1]>>

\* if ratio < 20 or ratio > 42
ratio_out_of_range(ratio) == ratio < RATIO_MIN \/ ratio > RATIO_MAX

\* An ordering test that skips the first pair.
ratios_disordered_skip_first(new_ratios) ==
    \E i \in 2..(Len(new_ratios) - 1) : new_ratios[i] < new_ratios[i + 1]

\* for i in range(len(new_ratios) - 1): if new_ratios[i] < new_ratios[i + 1]
ratios_disordered(new_ratios) ==
    \E i \in 1..(Len(new_ratios) - 1) : new_ratios[i] < new_ratios[i + 1]

RECURSIVE parse_ratios(_, _, _)
\* The first loop of _apply_ratios from line edit i on: the first empty or
\* out-of-range entry ends it with a warning, an int() that raises ends it.
parse_ratios(texts, i, acc) ==
    IF i > Len(texts) THEN [status |-> "ok", ratios |-> acc]
    ELSE IF Len(texts[i]) = 0 THEN [status |-> "warning", ratios |-> acc]
    ELSE IF int_raises(texts[i]) THEN [status |-> "uncaught", ratios |-> acc]
    ELSE IF ratio_out_of_range(int(texts[i]))
         THEN [status |-> "warning", ratios |-> acc]
    ELSE parse_ratios(texts, i + 1, Append(acc, int(texts[i])))

\* read_turbo_ratios() then "for i in range(4): current[i] = new_ratios[i]"
replace_first4(current, new_ratios) ==
    [i \in 1..8 |-> IF i <= 4 THEN new_ratios[i] ELSE current[i]]

\* _apply_ratios(): texts are the four line edits' texts.
apply_ratios(st, texts, rbad, wbad) ==
    LET p == parse_ratios(texts, 1, <<>>)
    IN  IF p.status # "ok" THEN [st EXCEPT !.msgbox = p.status]
        ELSE IF ratios_disordered(p.ratios) THEN [st EXCEPT !.msgbox = "warning"]
        ELSE LET st1 == read_msr(st, MSR_TURBO_RATIO_LIMIT, 0, rbad)
             IN  IF st1.raised THEN [st1 EXCEPT !.msgbox = "critical"]
                 ELSE LET current == decode_ratios(st.msr[0][MSR_TURBO_RATIO_LIMIT])
                          st2 == write_turbo_ratios(
                                   st1, replace_first4(current, p.ratios), wbad)
                      IN  [st2 EXCEPT !.msgbox =
                                        IF st2.raised THEN "critical" ELSE "none"]

\* _apply_power_limits(): pl1 and pl2 are the sliders' values, in watts.
apply_power_limits(st, pl1, pl2, k, rbad, wbad) ==
    LET st1 == write_pl_watts(st, Watts(pl1, 0), Watts(pl2, 0), k, rbad, wbad)
    IN  [st1 EXCEPT !.msgbox = IF st1.raised THEN "critical" ELSE "none"]

\* _on_turbo_toggled(state): enable = state == Qt.Checked.
on_turbo_toggled(st, enable, rbad, wbad) ==
    LET st1 == set_turbo_enabled(st, enable, rbad, wbad)
    IN  [st1 EXCEPT !.msgbox = IF st1.raised THEN "critical" ELSE "none"]

\* The check box after _on_turbo_toggled(state): on failure it is set to
\* read_turbo_enabled() of the hardware, unless that read raises too.
checkbox_after(st1, enable, rbad) ==
    IF st1.raised /\ read_turbo_enabled_ok(rbad)
    THEN read_turbo_enabled(st1.msr)
    ELSE enable

(***************************************************************************)
(* Initial states. The window is only constructed after read_rapl_units()  *)
(* has read CPU 0, so /dev/cpu holds CPU 0; the other ids may be sparse.   *)
(* /dev/cpu also holds the non-numeric entry "microcode".                  *)
(***************************************************************************)
Microcode == <<"m", "i", "c", "r", "o", "c", "o", "d", "e">>
CpuIds == 0..MaxCpu
DirChoices ==
    {[present |-> TRUE, entries |-> {str(c) : c \in S \cup {0}} \cup {Microcode}] :
        S \in SUBSET CpuIds}
DeviceCpus(dir) == {c \in CpuIds : HasDevice(dir, c)}

\* Register values, as bit sets. 38 is the turbo-disable bit of
\* IA32_MISC_ENABLE; 37 and 39 are its neighbours.
MiscValues == {{0}, {0, 38}, {16, 37, 39, 63}, {16, 37, 38, 39, 63}}

RatioValues == {encode_ratios(<<39, 38, 37, 36, 0, 0, 0, 0>>),
                encode_ratios(<<37, 36, 35, 34, 33, 32, 31, 30>>),
                encode_ratios(<<255, 255, 255, 0, 1, 128, 255, 22>>)}

Shift(s, n) == {b + n : b \in s}
\* PL1 35 W and PL2 45 W at 1/8 W, both enabled and clamped, with time windows.
PlTypical == IntToBits(280) \cup {15, 16, 17, 19, 20, 21}
             \cup Shift(IntToBits(360), 32) \cup {47, 48, 49, 53}
PlValues == {{}, PlTypical, PlTypical \cup {63}, 0..63,
             (IntToBits(280) \cup Shift(IntToBits(360), 32)) \cup {24, 31, 56, 62, 63}}

\* The registers of the CPUs of dir, register reg drawn from values: per CPU
\* for a thread-scoped register, one value for all CPUs for a package-scoped
\* one (the machine has one package).
PackageScoped == {MSR_TURBO_RATIO_LIMIT, MSR_PKG_POWER_LIMIT}
MsrChoices(dir, reg, values) ==
    {[c \in DeviceCpus(dir) |-> [r \in Regs |-> IF r = reg THEN f[c] ELSE {}]] :
        f \in {g \in [DeviceCpus(dir) -> values] :
                 reg \in PackageScoped => \A c, d \in DeviceCpus(dir) : g[c] = g[d]}}

FanIdle ==
    /\ fan_available = FALSE
    /\ fan_level = "auto"
    /\ wd_timeout = 0
    /\ wd_left = 0
    /\ app = "running"
    /\ since_poll = 0
    /\ fan_call = [op |-> "none"]
    /\ fan_log = <<>>
    /\ by_app = FALSE
    /\ reverted = FALSE

InitRegs(reg, values) ==
    /\ dev_cpu \in DirChoices
    /\ msr \in MsrChoices(dev_cpu, reg, values)
    /\ pre_msr = msr
    /\ power_unit_exp \in IF reg = MSR_PKG_POWER_LIMIT THEN {0, 3} ELSE {3}
    /\ call = [op |-> "none"]
    /\ io = <<>>
    /\ raised = FALSE
    /\ msgbox = "none"
    /\ turbo_checkbox = read_turbo_enabled(msr)
    /\ FanIdle

\* What every call into the register layer leaves behind.
Commit(st, c) ==
    /\ msr' = st.msr
    /\ pre_msr' = msr
    /\ io' = st.io
    /\ raised' = st.raised
    /\ msgbox' = st.msgbox
    /\ call' = c
    /\ UNCHANGED <<dev_cpu, power_unit_exp>>
    /\ UNCHANGED fanVars

\* The faults of one call: no device fails, or one CPU's device does. A call
\* ends at its first failed read or write, so one failing CPU stands for
\* every set of failing CPUs whose least member it is.
Faults == {{}} \cup {{c} : c \in CpuIds}

\* A call depends on the registers and on its arguments alone, so a behaviour
\* of the register layer is one call from any initial register state.
Idle == call.op = "none"

(***************************************************************************)
(* The register layer's calls.                                             *)
(***************************************************************************)
\* write_msr_all_cpus(msr, value), called with any register and value.
WriteValues == {{}, {0, 38, 63}, 0..63}
WriteMsrAllCpus ==
    /\ Idle
    /\ \E reg \in Regs, value \in WriteValues, wbad \in Faults :
         /\ Commit(write_msr_all_cpus(Start, reg, value, wbad),
                   [op |-> "write_msr_all_cpus", reg |-> reg, value |-> value])
         /\ UNCHANGED turbo_checkbox

\* The operator ticks or unticks the turbo check box: _on_turbo_toggled.
OnTurboToggled ==
    /\ Idle
    /\ \E rbad \in Faults, wbad \in Faults :
         LET enable == ~turbo_checkbox
             st == on_turbo_toggled(Start, enable, rbad, wbad)
         IN  /\ Commit(st, [op |-> "_on_turbo_toggled", enable |-> enable])
             /\ turbo_checkbox' = checkbox_after(st, enable, rbad)

\* The line edits' texts the model tries, and the spec's two examples.
RatioTexts == {<<>>, str(19), str(20), str(42), str(43)}
RatioExamples == {<<str(30), str(32), str(28), str(26)>>,
                  <<str(36), str(35), str(34), str(33)>>,
                  <<str(36), <<"+">>, str(34), str(33)>>,
                  <<<<"+", "3", "6">>, str(35), str(34), <<"-", "2", "0">>>>,
                  <<str(255), str(30), str(30), str(30)>>}
RatioInputs == [1..4 -> RatioTexts] \cup RatioExamples

\* The operator presses "Apply Ratios": _apply_ratios.
ApplyRatios ==
    /\ Idle
    /\ \E texts \in RatioInputs, rbad \in Faults, wbad \in Faults :
         /\ Commit(apply_ratios(Start, texts, rbad, wbad),
                   [op |-> "_apply_ratios", texts |-> texts])
         /\ UNCHANGED turbo_checkbox

\* write_turbo_ratios(ratios), called with a list of any length up to 8.
RatioLists == {<<>>, <<36>>, <<36, 35, 34, 33>>, <<36, 35, 34, 33, 32>>,
               <<36, 35, 34, 33, 32, 31, 30, 29>>, <<300, 35, 34, 33, 0, 0, 0, 0>>}
WriteTurboRatios ==
    /\ Idle
    /\ \E ratios \in RatioLists, wbad \in Faults :
         /\ Commit(write_turbo_ratios(Start, ratios, wbad),
                   [op |-> "write_turbo_ratios", ratios |-> ratios])
         /\ UNCHANGED turbo_checkbox

\* write_pl_watts(pl1_w, pl2_w, power_unit), each wattage None or one of
\* 20 W, 44.5 W, 45 W, 45.5 W (halves round to even at 1 W), and 5000 W,
\* whose raw value at 1/8 W (40000) does not fit the 15-bit field.
WattChoices == {None, Watts(20, 0), Watts(89, 1), Watts(45, 0), Watts(91, 1),
                Watts(5000, 0)}
WritePlWatts ==
    /\ Idle
    /\ \E pl1_w \in WattChoices, pl2_w \in WattChoices,
          rbad \in Faults, wbad \in Faults :
         /\ Commit(write_pl_watts(Start, pl1_w, pl2_w, power_unit_exp, rbad, wbad),
                   [op |-> "write_pl_watts", pl1_w |-> pl1_w, pl2_w |-> pl2_w])
         /\ UNCHANGED turbo_checkbox

\* The operator presses "Apply Power Limits": _apply_power_limits. The
\* sliders run from 20 to 60 W.
SliderWatts == {20, 45, 60}
ApplyPowerLimits ==
    /\ Idle
    /\ \E pl1 \in SliderWatts, pl2 \in SliderWatts,
          rbad \in Faults, wbad \in Faults :
         /\ Commit(apply_power_limits(Start, pl1, pl2, power_unit_exp, rbad, wbad),
                   [op |-> "_apply_power_limits", pl1_w |-> Watts(pl1, 0),
                    pl2_w |-> Watts(pl2, 0)])
         /\ UNCHANGED turbo_checkbox

\* read_power_limits then write_pl_watts with the wattages as decoded.
read_then_write_pl_watts(st, k, rbad, wbad) ==
    LET st1 == read_msr(st, MSR_PKG_POWER_LIMIT, 0, rbad)
    IN  IF st1.raised THEN st1
        ELSE LET limits == read_power_limits(st.msr[0][MSR_PKG_POWER_LIMIT], k)
             IN  write_pl_watts(st1, limits.pl1_w, limits.pl2_w, k, rbad, wbad)

\* The power limits are decoded and written back unchanged.
ReadThenWritePlWatts ==
    /\ Idle
    /\ \E rbad \in Faults, wbad \in Faults :
         /\ Commit(read_then_write_pl_watts(Start, power_unit_exp, rbad, wbad),
                   [op |-> "read_then_write_pl_watts"])
         /\ UNCHANGED turbo_checkbox

(***************************************************************************)
(* The specifications of the register layer, one per register.             *)
(***************************************************************************)
InitIo == InitRegs(IA32_MISC_ENABLE, {{0}, {16, 37, 39}})
NextIo == WriteMsrAllCpus
SpecIo == InitIo /\ [][NextIo]_vars

InitTurbo == InitRegs(IA32_MISC_ENABLE, MiscValues)
NextTurbo == OnTurboToggled
SpecTurbo == InitTurbo /\ [][NextTurbo]_vars

InitRatios == InitRegs(MSR_TURBO_RATIO_LIMIT, RatioValues)
NextRatios == ApplyRatios \/ WriteTurboRatios
SpecRatios == InitRatios /\ [][NextRatios]_vars

\* bits and set_bits, called with any range 0 <= lo <= hi <= 63 over the
\* field boundaries of the registers, any base value and any field, fields
\* wider than the range included.
CodecPositions == {0, 7, 8, 14, 15, 16, 31, 32, 38, 46, 47, 62, 63}
CodecValues == {{}, 0..63, PlTypical, {0, 38, 63}, {7, 15, 31, 47}}
CodecFields == {0, 1, 255, 256, 360, 40000, 2147483647}
SetBits ==
    /\ Idle
    /\ \E lo \in CodecPositions, hi \in CodecPositions,
          orig \in CodecValues, field \in CodecFields :
         /\ lo <= hi
         /\ LET result == set_bits(orig, hi, lo, IntToBits(field))
            IN  call' = [op |-> "set_bits", orig |-> orig, hi |-> hi, lo |-> lo,
                         field |-> field, result |-> result,
                         extracted |-> bits(result, hi, lo)]
    /\ UNCHANGED <<dev_cpu, msr, pre_msr, power_unit_exp, io, raised, msgbox,
                   turbo_checkbox>>
    /\ UNCHANGED fanVars

InitCodec == InitRegs(IA32_MISC_ENABLE, {{}}) /\ dev_cpu.entries = {str(0), Microcode}
NextCodec == SetBits
SpecCodec == InitCodec /\ [][NextCodec]_vars

\* online_cpus(), called with /dev/cpu absent (the msr module not loaded),
\* empty, or holding any of these entries: CPU ids ("10" sorts before "2" as
\* a string), and names that are not numbers.
EntryNames == {str(0), str(1), str(2), str(10), Microcode,
               <<"c", "p", "u", "0">>, <<"1", "a">>}
TopologyDirs ==
    {[present |-> FALSE, entries |-> {}]}
      \cup {[present |-> TRUE, entries |-> S] : S \in SUBSET EntryNames}
OnlineCpus ==
    /\ Idle
    /\ call' = [op |-> "online_cpus",
                result |-> IF online_cpus_raises(dev_cpu) THEN <<>>
                           ELSE online_cpus(dev_cpu)]
    /\ raised' = online_cpus_raises(dev_cpu)
    /\ UNCHANGED <<dev_cpu, msr, pre_msr, power_unit_exp, io, msgbox,
                   turbo_checkbox>>
    /\ UNCHANGED fanVars

InitTopology ==
    /\ dev_cpu \in TopologyDirs
    /\ msr = [c \in DeviceCpus(dev_cpu) |-> [r \in Regs |-> {}]]
    /\ pre_msr = msr
    /\ power_unit_exp = 3
    /\ call = [op |-> "none"]
    /\ io = <<>>
    /\ raised = FALSE
    /\ msgbox = "none"
    /\ turbo_checkbox = TRUE
    /\ FanIdle
NextTopology == OnlineCpus
SpecTopology == InitTopology /\ [][NextTopology]_vars

InitPower == InitRegs(MSR_PKG_POWER_LIMIT, PlValues)
NextPower == WritePlWatts \/ ApplyPowerLimits \/ ReadThenWritePlWatts
SpecPower == InitPower /\ [][NextPower]_vars

(***************************************************************************)
(* Claims about the register layer.                                        *)
(***************************************************************************)
\* The successful writes of the last call.
Written == {i \in 1..Len(io) : io[i].op = "write" /\ io[i].ok}
\* The attempted writes of the last call.
Attempted == {i \in 1..Len(io) : io[i].op = "write"}

\* C1: whatever the power-limit register read (bit 63 included) and whichever
\* of pl1_w and pl2_w are given, every value write_pl_watts writes to a CPU,
\* and so every value a CPU's register takes from it, has bit 63 clear.
C1_LockBitNeverWritten ==
    call.op \in {"write_pl_watts", "_apply_power_limits"} =>
        /\ \A i \in Attempted :
             io[i].reg = MSR_PKG_POWER_LIMIT /\ 63 \notin io[i].value
        /\ \A i \in Written : 63 \notin msr[io[i].cpu][MSR_PKG_POWER_LIMIT]

\* C1's case: the register read with the lock bit set, only PL2 was given, and
\* the value was written to more than one CPU.
C1_Witness ==
    /\ call.op = "write_pl_watts"
    /\ call.pl1_w = None /\ call.pl2_w # None
    /\ Len(io) > 0 /\ io[1].op = "read" /\ io[1].ok /\ 63 \in io[1].value
    /\ Cardinality(Written) >= 2
    /\ ~raised

\* C7: write_msr_all_cpus writes the online CPUs in ascending id order and is
\* not transactional: when the write to CPU k fails, the online CPUs below k
\* hold the new value, k and the online CPUs above it keep their old value,
\* nothing more is attempted, and the error reaches the caller. Without a
\* failure every online CPU holds the new value.
C7_AscendingNoRollback ==
    call.op = "write_msr_all_cpus" =>
        LET online == DeviceCpus(dev_cpu)
            tried  == {io[i].cpu : i \in 1..Len(io)}
        IN  /\ \A i \in 1..Len(io) :
                 /\ io[i].op = "write" /\ io[i].reg = call.reg
                 /\ io[i].value = call.value
                 /\ io[i].cpu \in online
                 /\ i < Len(io) => io[i].ok /\ io[i].cpu < io[i + 1].cpu
            \* the CPUs tried are the least online ones: none is skipped
            /\ \A c \in online : \A d \in tried : c < d => c \in tried
            /\ raised <=> (Len(io) > 0 /\ ~io[Len(io)].ok)
            /\ ~raised => tried = online
            /\ \A c \in online : \A r \in Regs :
                 msr[c][r] = IF r = call.reg /\ c \in tried
                                /\ ~(raised /\ c = io[Len(io)].cpu)
                             THEN call.value
                             ELSE pre_msr[c][r]

\* C7's case: the write to CPU 1 failed between CPU 0, which changed, and
\* CPU 2, which kept a value different from the one written.
C7_Witness ==
    /\ call.op = "write_msr_all_cpus"
    /\ raised
    /\ DeviceCpus(dev_cpu) = {0, 1, 2}
    /\ Len(io) = 2 /\ io[2].cpu = 1 /\ ~io[2].ok
    /\ msr[0][call.reg] = call.value /\ pre_msr[0][call.reg] # call.value
    /\ msr[1][call.reg] = pre_msr[1][call.reg] /\ msr[1][call.reg] # call.value
    /\ msr[2][call.reg] = pre_msr[2][call.reg] /\ msr[2][call.reg] # call.value

\* C8: after set_turbo_enabled(enable) completes without error, every online
\* CPU's IA32_MISC_ENABLE has bit 38 equal to the inverse of enable and its
\* other 63 bits as that CPU itself held them before the call.
C8_TurboPerCpuReadModifyWrite ==
    (call.op = "_on_turbo_toggled" /\ ~raised) =>
        \A c \in DeviceCpus(dev_cpu) :
            /\ (38 \in msr[c][IA32_MISC_ENABLE]) <=> ~call.enable
            /\ msr[c][IA32_MISC_ENABLE] \ {38} = pre_msr[c][IA32_MISC_ENABLE] \ {38}
            /\ msr[c][IA32_MISC_ENABLE] \subseteq 0..63

\* C8's case: turbo was switched off on three CPUs, two of which held
\* different values, and bit 38 changed on one of them.
C8_Witness ==
    /\ call.op = "_on_turbo_toggled" /\ ~raised /\ ~call.enable
    /\ DeviceCpus(dev_cpu) = {0, 1, 2}
    /\ pre_msr[0][IA32_MISC_ENABLE] \ {38} # pre_msr[1][IA32_MISC_ENABLE] \ {38}
    /\ 38 \notin pre_msr[1][IA32_MISC_ENABLE]
    /\ 38 \in msr[1][IA32_MISC_ENABLE]

\* What C9 calls a rejected entry list: an entry is missing (empty, or no
\* number), or outside 20..42, or the four are not non-increasing.
C9_Invalid(texts) ==
    \/ \E i \in 1..4 : Len(texts[i]) = 0 \/ int_raises(texts[i])
    \/ \E i \in 1..4 : int(texts[i]) < 20 \/ int(texts[i]) > 42
    \/ \E i \in 1..3 : int(texts[i]) < int(texts[i + 1])

\* C9: applying turbo ratios fails closed. With an entry missing, outside
\* 20..42 or out of order, no register is read or written on any CPU;
\* [30, 32, 28, 26] is rejected and [36, 35, 34, 33] is accepted (its read and
\* its first write are attempted); and every value the apply path writes has
\* entries 0-3 in 20..42 and non-increasing.
C9_RatiosFailClosed ==
    call.op = "_apply_ratios" =>
        /\ C9_Invalid(call.texts) => (io = <<>> /\ msr = pre_msr /\ msgbox # "none")
        /\ call.texts = <<str(30), str(32), str(28), str(26)>> => io = <<>>
        /\ call.texts = <<str(36), str(35), str(34), str(33)>> =>
              /\ Len(io) > 0 /\ io[1].op = "read"
              /\ io[1].ok => (Len(io) > 1 /\ io[2].op = "write")
        /\ \A i \in Attempted :
              LET e == decode_ratios(io[i].value)
              IN  /\ \A j \in 1..4 : e[j] >= 20 /\ e[j] <= 42
                  /\ \A j \in 1..3 : e[j] >= e[j + 1]
                  /\ <<e[1], e[2], e[3], e[4]>> =
                        <<int(call.texts[1]), int(call.texts[2]),
                          int(call.texts[3]), int(call.texts[4])>>

\* C9's case: [30, 32, 28, 26] was entered and rejected with a warning.
C9_Witness ==
    /\ call.op = "_apply_ratios"
    /\ call.texts = <<str(30), str(32), str(28), str(26)>>
    /\ msgbox = "warning"
    /\ io = <<>>

\* C10: a turbo-ratio write never zeroes entries it was not asked to change.
\* After write_turbo_ratios(ratios), on every CPU written, each of entries
\* 4-7 that ratios does not give is as the register held it before; after
\* the apply path, entries 4-7 of every CPU written are as before.
C10_UpperEntriesPreserved ==
    /\ call.op = "write_turbo_ratios" =>
         \A i \in Written : \A j \in 5..8 :
            j > Len(call.ratios) =>
               decode_ratios(msr[io[i].cpu][MSR_TURBO_RATIO_LIMIT])[j]
                 = decode_ratios(pre_msr[io[i].cpu][MSR_TURBO_RATIO_LIMIT])[j]
    /\ call.op = "_apply_ratios" =>
         \A i \in Written : \A j \in 5..8 :
            decode_ratios(msr[io[i].cpu][MSR_TURBO_RATIO_LIMIT])[j]
              = decode_ratios(pre_msr[io[i].cpu][MSR_TURBO_RATIO_LIMIT])[j]

\* The value write_pl_watts read from CPU 0 (its first register access).
PlRead == io[1].value
\* The bits write_pl_watts may change: PL1's field and enable bit, PL2's
\* field and enable bit, the lock bit.
PlLimitBits == (0..15) \cup (32..47) \cup {63}

\* C11: write_pl_watts touches only the limits it is given. In every value it
\* writes: with pl2_w absent bits [46:32] and bit 47 are as read, and with
\* pl1_w present bits [14:0] are round(pl1_w / power_unit) and bit 15 is set;
\* symmetrically with pl1_w absent and pl2_w present; and the time windows
\* and every other bit except bit 63 are as read.
C11_OnlyGivenLimitsTouched ==
    call.op \in {"write_pl_watts", "_apply_power_limits"} =>
        \A i \in Attempted :
            LET value == io[i].value
            IN  /\ call.pl1_w = None => value \cap (0..15) = PlRead \cap (0..15)
                /\ call.pl2_w = None => value \cap (32..47) = PlRead \cap (32..47)
                /\ call.pl1_w # None =>
                      /\ BitsToInt(bits(value, 14, 0))
                            = raw_watts(call.pl1_w, power_unit_exp)
                      /\ 15 \in value
                /\ call.pl2_w # None =>
                      /\ BitsToInt(bits(value, 46, 32))
                            = raw_watts(call.pl2_w, power_unit_exp)
                      /\ 47 \in value
                /\ value \ PlLimitBits = PlRead \ PlLimitBits

\* C12 as claimed: decoding a power-limit register value and writing the
\* decoded PL1 and PL2 wattages back unchanged writes the value as read,
\* bit for bit, except that bit 63 is 0.
C12_RoundTripExceptLock ==
    call.op = "read_then_write_pl_watts" =>
        \A i \in Attempted : io[i].value = PlRead \ {63}

\* C12, amended: the round trip writes the value as read except that bit 63
\* is 0 and the two enable bits, 15 and 47, are 1: the wattage fields, the
\* time windows and every other bit are as read.
C12_RoundTripExceptLockAndEnables ==
    call.op = "read_then_write_pl_watts" =>
        \A i \in Attempted : io[i].value = (PlRead \ {63}) \cup {15, 47}

\* C12's case: a register with both wattage fields set, the lock bit set and
\* both enable bits clear was decoded and written back.
C12_Witness ==
    /\ call.op = "read_then_write_pl_watts"
    /\ Written # {}
    /\ bits(PlRead, 14, 0) # {} /\ bits(PlRead, 46, 32) # {}
    /\ 63 \in PlRead /\ 15 \notin PlRead /\ 47 \notin PlRead
    /\ \A i \in Written :
          msr[io[i].cpu][MSR_PKG_POWER_LIMIT] = (PlRead \ {63}) \cup {15, 47}

\* C13: for 0 <= lo <= hi <= 63, every base value v and every field f,
\* bits(set_bits(v, hi, lo, f), hi, lo) is f mod 2^(hi-lo+1): a field wider
\* than the range is cut to the range's width; and every bit of
\* set_bits(v, hi, lo, f) outside [lo, hi] is the bit of v.
C13_CodecRoundTripAndFrame ==
    call.op = "set_bits" =>
        LET width == call.hi - call.lo + 1
        IN  /\ width <= 30 =>
                  BitsToInt(call.extracted) = call.field % (2 ^ width)
            /\ width > 30 => call.extracted = IntToBits(call.field)
            /\ call.extracted \subseteq 0..(width - 1)
            /\ call.result \ (call.lo..call.hi) = call.orig \ (call.lo..call.hi)
            /\ call.result \subseteq 0..63

\* C13's case: a field wider than the range was inserted below bits of the
\* base value that are 1 and stay 1 and a bit that is 0 and stays 0, and was
\* read back cut to the width.
C13_Witness ==
    /\ call.op = "set_bits"
    /\ call.lo = 8 /\ call.hi = 14 /\ call.field = 40000
    /\ call.orig = PlTypical
    /\ {15, 16, 17} \subseteq call.result /\ 18 \notin call.result
    /\ BitsToInt(call.extracted) = 64

\* The entries of /dev/cpu that are purely numeric.
NumericEntries == {x \in dev_cpu.entries : isdigit(x)}

\* C14: online_cpus never reports an error: with /dev/cpu absent, or present
\* without a purely numeric entry, it returns the empty sequence; otherwise
\* it returns exactly the numeric entries as integers, ascending, the other
\* entries ignored.
C14_OnlineCpusNeverRaises ==
    call.op = "online_cpus" =>
        /\ ~raised
        /\ (~dev_cpu.present \/ NumericEntries = {}) => call.result = <<>>
        /\ Len(call.result) = Cardinality(NumericEntries)
        /\ \A x \in NumericEntries :
              \E i \in 1..Len(call.result) : str(call.result[i]) = x
        /\ \A i \in 1..(Len(call.result) - 1) : call.result[i] < call.result[i + 1]

\* What C14 says of a directory that is present, which the code does.
C14_PresentDirectory ==
    (call.op = "online_cpus" /\ dev_cpu.present) =>
        /\ ~raised
        /\ NumericEntries = {} => call.result = <<>>
        /\ Len(call.result) = Cardinality(NumericEntries)
        /\ \A x \in NumericEntries :
              \E i \in 1..Len(call.result) : str(call.result[i]) = x
        /\ \A i \in 1..(Len(call.result) - 1) : call.result[i] < call.result[i + 1]

\* Turbo as CPU c's register has it: the inverse of bit 38.
TurboOn(m, c) == 38 \notin m[c][IA32_MISC_ENABLE]
\* The online CPUs agreed on turbo when the last call started.
TurboAgreedBefore ==
    \A c, d \in DeviceCpus(dev_cpu) : TurboOn(pre_msr, c) <=> TurboOn(pre_msr, d)

\* C15: when set_turbo_enabled fails on some CPU during a turbo toggle, the
\* failure is shown to the operator and, when the handler has returned, the
\* check box shows the turbo state the online CPUs actually have (the
\* inverse of bit 38), not the requested one. (Taken from a state in which
\* the online CPUs agreed.)
C15_CheckboxShowsHardware ==
    (call.op = "_on_turbo_toggled" /\ raised /\ TurboAgreedBefore) =>
        /\ msgbox = "critical"
        /\ \A c \in DeviceCpus(dev_cpu) : turbo_checkbox <=> TurboOn(msr, c)

\* What the handler does achieve: the failure is shown, and when CPU 0 can
\* be read the check box shows CPU 0's turbo state.
C15_CheckboxShowsCpu0WhenReadable ==
    (call.op = "_on_turbo_toggled" /\ raised) =>
        /\ msgbox = "critical"
        /\ io[1].op = "read" /\ io[1].cpu = 0
        /\ io[1].ok => (turbo_checkbox <=> TurboOn(msr, 0))

(***************************************************************************)
(* The fan controller. The control file /proc/acpi/ibm/fan takes the       *)
(* commands "level <level>" and "watchdog <seconds>". The firmware side is *)
(* what the program relies on (its info label): "watchdog n" sets the      *)
(* timeout and restarts the timer, n = 0 disarms it, and a timer that runs *)
(* out puts the fan back to auto.                                          *)
(*                                                                         *)
(* A handler threads a record fs = [level, timeout, left, log, exc]: the   *)
(* fan's level, the watchdog's timeout and remaining seconds, the commands *)
(* written so far, and the exception raised ("none", "perm" for            *)
(* PermissionError, "err" for any other).                                  *)
(***************************************************************************)
ManualLevels == {"0", "1", "2", "3", "4", "5", "6", "7"}
Levels == {"auto", "full-speed", "disengaged"} \cup ManualLevels
Outcomes == {"ok", "perm", "err"}

FanCmd(cmd, level, timeout, ok) ==
    [cmd |-> cmd, level |-> level, timeout |-> timeout, ok |-> ok]

\* write_fan_level(level), with the outcome of the file write.
write_fan_level(fs, level, outcome) ==
    IF outcome = "ok"
    THEN [fs EXCEPT !.level = level,
                    !.log = Append(@, FanCmd("level", level, -1, TRUE))]
    ELSE [fs EXCEPT !.log = Append(@, FanCmd("level", level, -1, FALSE)),
                    !.exc = outcome]

\* write_fan_watchdog(timeout), with the outcome of the file write.
write_fan_watchdog(fs, timeout, outcome) ==
    IF outcome = "ok"
    THEN [fs EXCEPT !.timeout = timeout, !.left = timeout,
                    !.log = Append(@, FanCmd("watchdog", "", timeout, TRUE))]
    ELSE [fs EXCEPT !.log = Append(@, FanCmd("watchdog", "", timeout, FALSE)),
                    !.exc = outcome]

\* The fan as a handler finds it.
FanStart == [level |-> fan_level, timeout |-> wd_timeout, left |-> wd_left,
             log |-> <<>>, exc |-> "none"]

\* level_str of _apply_fan_setting, from the combo box and the slider.
level_str(index, slider) ==
    CASE index = 0 -> "auto"
      [] index = 1 -> DigitChar[slider + 1]
      [] index = 2 -> "full-speed"
      [] index = 3 -> "disengaged"

\* _apply_fan_setting that does not ask before "disengaged".
apply_fan_setting_unasked(fs, index, slider, reply, o1, o2) ==
    LET fs1 == write_fan_level(fs, level_str(index, slider), o1)
    IN  IF fs1.exc # "none" THEN fs1
        ELSE IF level_str(index, slider) # "auto"
             THEN write_fan_watchdog(fs1, FAN_WATCHDOG_SECONDS, o2)
             ELSE write_fan_watchdog(fs1, 0, o2)

\* _apply_fan_setting(): reply is the answer to the confirmation dialog of
\* "disengaged"; o1 and o2 are the outcomes of the two file writes. Both
\* except clauses show a message box and end the handler.
apply_fan_setting(fs, index, slider, reply, o1, o2) ==
    IF index = 3 /\ reply # "yes" THEN fs
    ELSE LET fs1 == write_fan_level(fs, level_str(index, slider), o1)
         IN  IF fs1.exc # "none" THEN fs1
             ELSE IF level_str(index, slider) # "auto"
                  THEN write_fan_watchdog(fs1, FAN_WATCHDOG_SECONDS, o2)
                  ELSE write_fan_watchdog(fs1, 0, o2)

\* _refresh_fan_status that puts a fan it finds in auto back to full speed.
refresh_fan_status_fights(fs, available, read_ok, o) ==
    IF ~available THEN fs
    ELSE IF ~read_ok THEN [fs EXCEPT !.exc = "err"]
    ELSE IF fs.level # "auto"
         THEN write_fan_watchdog(fs, FAN_WATCHDOG_SECONDS, o)
         ELSE write_fan_level(fs, "full-speed", o)

\* _refresh_fan_status that never writes the watchdog.
refresh_fan_status_idle(fs, available, read_ok, o) == fs

\* _refresh_fan_status(): read_ok is whether read_fan_status() returned; a
\* failure of the read or of the write is swallowed.
refresh_fan_status(fs, available, read_ok, o) ==
    IF ~available THEN fs
    ELSE IF ~read_ok THEN [fs EXCEPT !.exc = "err"]
    ELSE IF fs.level # "auto"
         THEN write_fan_watchdog(fs, FAN_WATCHDOG_SECONDS, o)
         ELSE fs

\* closeEvent with a try block of its own around each write.
close_event_each(fs, available, o1, o2) ==
    IF ~available THEN fs
    ELSE write_fan_watchdog(write_fan_level(fs, "auto", o1), 0, o2)

\* closeEvent(): one try block around both writes, "except Exception: pass".
close_event(fs, available, o1, o2) ==
    IF ~available THEN fs
    ELSE LET fs1 == write_fan_level(fs, "auto", o1)
         IN  IF fs1.exc # "none" THEN fs1
             ELSE write_fan_watchdog(fs1, 0, o2)

\* What a fan handler leaves behind: c describes the handler's run.
FanCommit(fs, c) ==
    /\ fan_level' = fs.level
    /\ wd_timeout' = fs.timeout
    /\ wd_left' = fs.left
    /\ fan_log' = fs.log
    /\ fan_call' = c
    /\ by_app' = (by_app \/ \E i \in 1..Len(fs.log) :
                     fs.log[i].cmd = "level" /\ fs.log[i].ok
                     /\ fs.log[i].level # "auto")
    /\ reverted' = IF c.op = "apply" /\ Len(fs.log) > 0 /\ fs.log[1].ok
                   THEN FALSE ELSE reverted
    /\ UNCHANGED fan_available
    /\ UNCHANGED msrVars

\* A handler's run: its name, the level it was to set or read, the dialog's
\* answer ("" when none was shown), the exception it caught ("none" when
\* none), whether an exception left it, whether the close event was accepted.
FanCall(op, level, reply, exc, escaped, accepted) ==
    [op |-> op, level |-> level, reply |-> reply,
     caught |-> exc, escaped |-> escaped, accepted |-> accepted]

(***************************************************************************)
(* The fan's actions: the operator, the timer, termination, the firmware.  *)
(***************************************************************************)
\* The combo box's index and the slider's value; the slider is read in manual
\* mode (index 1) only.
Selections == {sel \in (0..3) \X (0..7) : sel[1] # 1 => sel[2] = 0}
\* The outcomes of a handler's two file writes; the second write is reached
\* only when the first succeeded.
WritePairs == {o \in Outcomes \X Outcomes : o[1] # "ok" => o[2] = "ok"}

\* The operator presses "Apply Fan Setting": _apply_fan_setting, with the
\* combo box at index and the slider at slider (the operator sets both
\* freely beforehand; their handlers only update labels).
ApplyFanSetting ==
    /\ app = "running" /\ fan_available
    /\ \E sel \in Selections, o \in WritePairs :
         \E reply \in IF sel[1] = 3 THEN {"yes", "no"} ELSE {""} :
            LET fs == apply_fan_setting(FanStart, sel[1], sel[2], reply, o[1], o[2])
            IN  FanCommit(fs, FanCall("apply", level_str(sel[1], sel[2]), reply,
                                      fs.exc, FALSE, FALSE))
    /\ UNCHANGED <<app, since_poll>>

\* The refresh timer fires: _refresh_core_speeds ends with
\* _refresh_fan_status.
Poll ==
    /\ app = "running" /\ since_poll = TIMER_SECONDS
    /\ \E read_ok \in BOOLEAN, o \in Outcomes :
         LET fs == refresh_fan_status(FanStart, fan_available, read_ok, o)
         IN  FanCommit(fs, FanCall("poll",
                                   IF fan_available /\ read_ok THEN fan_level ELSE "",
                                   "", fs.exc, FALSE, FALSE))
    /\ since_poll' = 0
    /\ UNCHANGED app

\* The operator closes the window: closeEvent, then the process exits.
CloseEvent ==
    /\ app = "running"
    /\ \E o \in WritePairs :
         LET fs == close_event(FanStart, fan_available, o[1], o[2])
         IN  FanCommit(fs, FanCall("close", "auto", "", fs.exc, FALSE, TRUE))
    /\ app' = "closed"
    /\ UNCHANGED since_poll

\* The process ends without closeEvent (killed, or aborted by an exception).
Kill ==
    /\ app = "running"
    /\ app' = "killed"
    /\ UNCHANGED <<fan_available, fan_level, wd_timeout, wd_left, since_poll,
                   fan_call, fan_log, by_app, reverted>>
    /\ UNCHANGED msrVars

\* A second passes. The running application's timer fires every
\* TIMER_SECONDS, and an expired watchdog acts before time goes on.
Tick ==
    /\ app = "running" => since_poll < TIMER_SECONDS
    /\ wd_timeout > 0 => wd_left > 0
    /\ since_poll' = IF app = "running" THEN since_poll + 1 ELSE since_poll
    /\ wd_left' = IF wd_timeout > 0 THEN wd_left - 1 ELSE wd_left
    /\ UNCHANGED <<fan_available, fan_level, wd_timeout, app, fan_call, fan_log,
                   by_app, reverted>>
    /\ UNCHANGED msrVars

\* The firmware watchdog runs out: the fan goes back to auto and the timer
\* starts again.
WatchdogExpire ==
    /\ wd_timeout > 0 /\ wd_left = 0
    /\ fan_level' = "auto"
    /\ wd_left' = wd_timeout
    /\ reverted' = TRUE
    /\ UNCHANGED <<fan_available, wd_timeout, app, since_poll, fan_call, fan_log,
                   by_app>>
    /\ UNCHANGED msrVars

\* After construction: _load_current_values has read the level the fan was
\* left at and, for a level other than auto, written "watchdog 30" (a
\* failure of that write is swallowed).

InitFan ==
    /\ fan_available \in BOOLEAN
    /\ fan_level \in IF fan_available THEN Levels ELSE {"auto"}
    /\ wd_timeout \in IF fan_level # "auto" THEN {0, FAN_WATCHDOG_SECONDS} ELSE {0}
    /\ wd_left = wd_timeout
    /\ app = "running"
    /\ since_poll = 0
    /\ fan_call = [op |-> "none"]
    /\ fan_log = <<>>
    /\ by_app = FALSE
    /\ reverted = FALSE
    /\ dev_cpu = [present |-> TRUE, entries |-> {str(0), Microcode}]
    /\ msr = [c \in {0} |-> [r \in Regs |-> {}]]
    /\ pre_msr = msr
    /\ power_unit_exp = 3
    /\ call = [op |-> "none"]
    /\ io = <<>>
    /\ raised = FALSE
    /\ msgbox = "none"
    /\ turbo_checkbox = TRUE

NextFan ==
    \/ ApplyFanSetting
    \/ Poll
    \/ CloseEvent
    \/ Kill
    \/ Tick
    \/ WatchdogExpire

SpecFan == InitFan /\ [][NextFan]_vars

\* The clock runs and the firmware acts; the running application's timer
\* fires. Nothing obliges the operator to act.
SpecFanFair ==
    /\ SpecFan
    /\ WF_vars(Tick)
    /\ WF_vars(WatchdogExpire)
    /\ WF_vars(Poll)

(***************************************************************************)
(* Claims about the fan controller.                                        *)
(***************************************************************************)
IsLevelCmd(e, level) == e.cmd = "level" /\ e.level = level
IsWatchdogCmd(e, timeout) == e.cmd = "watchdog" /\ e.timeout = timeout

\* C2: once the application has put the fan into a non-auto mode, the fan
\* eventually returns to auto after the application stops, by closeEvent or,
\* without cleanup, by the firmware watchdog; for every interleaving of
\* apply, poll, fan-file write failures and termination.
C2_EventuallyAutoAfterStop ==
    [](by_app /\ app # "running" => <>(fan_level = "auto"))

\* C3: an apply whose level command is written then writes a watchdog
\* command, with the timeout 30 for every mode other than auto and 0 for
\* auto; and a fan that apply has put into a non-auto mode has its watchdog
\* armed when the handler returns.
C3_ApplyArmsWatchdog ==
    (fan_call.op = "apply" /\ Len(fan_log) >= 1 /\ fan_log[1].ok) =>
        /\ IsLevelCmd(fan_log[1], fan_call.level)
        /\ Len(fan_log) = 2
        /\ IsWatchdogCmd(fan_log[2], IF fan_call.level = "auto"
                                     THEN 0 ELSE FAN_WATCHDOG_SECONDS)
        /\ fan_call.level # "auto" => wd_timeout = FAN_WATCHDOG_SECONDS

\* C4 as claimed: a poll that finds a level other than auto has re-armed the
\* watchdog with 30 s, and while the application runs and polls every
\* second the watchdog never runs out.
C4_WatchdogNeverExpiresWhileAlive ==
    /\ (fan_call.op = "poll" /\ fan_call.level \notin {"", "auto"}
          /\ app = "running" /\ since_poll = 0) =>
            (wd_timeout = FAN_WATCHDOG_SECONDS /\ wd_left = FAN_WATCHDOG_SECONDS)
    /\ (app = "running" /\ wd_timeout > 0) => wd_left > 0

\* C4, amended: a poll that reads a level other than auto writes
\* "watchdog 30" and nothing else (a poll that reads auto, or whose read
\* fails, writes nothing); when that write succeeds then, until the
\* next handler of the running application, the fan keeps its level and the
\* watchdog has at least 30 s less the timer's period left, so it cannot run
\* out between two polls that re-arm it.
C4_PollRearmsWhenWriteSucceeds ==
    /\ (fan_call.op = "poll" /\ fan_call.level \in {"", "auto"}) =>
          fan_log = <<>>
    /\ (fan_call.op = "poll" /\ fan_call.level \notin {"", "auto"}) =>
        /\ Len(fan_log) = 1
        /\ IsWatchdogCmd(fan_log[1], FAN_WATCHDOG_SECONDS)
        /\ (fan_log[1].ok /\ app = "running") =>
              /\ wd_timeout = FAN_WATCHDOG_SECONDS
              /\ wd_left >= FAN_WATCHDOG_SECONDS - TIMER_SECONDS
              /\ wd_left > 0
              /\ fan_level = fan_call.level

\* C4's case: a second after a poll re-armed the watchdog of a disengaged
\* fan, the application still running.
C4_Witness ==
    /\ fan_call.op = "poll" /\ fan_call.level = "disengaged"
    /\ fan_log = <<FanCmd("watchdog", "", FAN_WATCHDOG_SECONDS, TRUE)>>
    /\ app = "running" /\ since_poll = TIMER_SECONDS
    /\ wd_left = FAN_WATCHDOG_SECONDS - TIMER_SECONDS
    /\ fan_level = "disengaged"

\* C5 as claimed: closeEvent attempts "level auto" and then "watchdog 0",
\* both, whatever fails; nothing propagates and the event is accepted.
C5_BothAttempted ==
    (fan_call.op = "close" /\ fan_available) =>
        /\ Len(fan_log) = 2
        /\ IsLevelCmd(fan_log[1], "auto") /\ IsWatchdogCmd(fan_log[2], 0)
        /\ fan_call.accepted /\ ~fan_call.escaped

\* C5, amended: closeEvent attempts "level auto" and, only when that write
\* succeeded, "watchdog 0" after it; a failed level write ends the cleanup,
\* leaving the watchdog as it was. No failure propagates, the event is
\* accepted and the application has stopped.
C5_CloseBestEffort ==
    fan_call.op = "close" =>
        /\ app = "closed" /\ fan_call.accepted /\ ~fan_call.escaped
        /\ ~fan_available => fan_log = <<>>
        /\ fan_available =>
              /\ Len(fan_log) >= 1 /\ IsLevelCmd(fan_log[1], "auto")
              /\ fan_log[1].ok =>
                    (Len(fan_log) = 2 /\ IsWatchdogCmd(fan_log[2], 0)
                       /\ fan_level = "auto")
              /\ ~fan_log[1].ok => Len(fan_log) = 1

\* C5's case: the window was closed with the fan disengaged and the write of
\* "level auto" failed: the event was accepted and the watchdog stayed armed.
C5_Witness ==
    /\ fan_call.op = "close" /\ app = "closed" /\ fan_call.accepted
    /\ fan_level = "disengaged"
    /\ fan_log = <<FanCmd("level", "auto", -1, FALSE)>>
    /\ wd_timeout = FAN_WATCHDOG_SECONDS

\* C6: "level disengaged" is written only by an apply whose confirmation
\* dialog was answered Yes, and an apply that was refused writes nothing to
\* the fan file, neither a level nor a watchdog command.
C6_DisengagedOnlyConfirmed ==
    /\ \A i \in 1..Len(fan_log) :
         IsLevelCmd(fan_log[i], "disengaged") =>
            (fan_call.op = "apply" /\ fan_call.reply = "yes")
    /\ (fan_call.op = "apply" /\ fan_call.level = "disengaged"
          /\ fan_call.reply # "yes") => fan_log = <<>>

\* C6's case: the operator confirmed, and "level disengaged" was written.
C6_Witness ==
    /\ fan_call.op = "apply" /\ fan_call.reply = "yes"
    /\ Len(fan_log) = 2 /\ IsLevelCmd(fan_log[1], "disengaged") /\ fan_log[1].ok
    /\ fan_level = "disengaged"

\* C16: the application does not fight the firmware's fail-safe. A poll
\* never writes a level command, and a poll that reads level auto writes
\* nothing at all; and once the firmware watchdog has put the fan back to
\* auto, the fan is in auto for as long as no apply has written a level:
\* through polls, the passing of time, closeEvent and termination.
C16_PollNeverFightsFirmware ==
    /\ fan_call.op = "poll" =>
          /\ \A i \in 1..Len(fan_log) : fan_log[i].cmd # "level"
          /\ fan_call.level = "auto" => fan_log = <<>>
    /\ reverted => fan_level = "auto"

\* C16's case: the application had set a level, the firmware watchdog ran
\* out and put the fan back to auto, and the next poll of the running
\* application read auto and wrote nothing.
C16_Witness ==
    /\ by_app /\ reverted
    /\ app = "running"
    /\ fan_call.op = "poll" /\ fan_call.level = "auto"
    /\ fan_log = <<>>
    /\ fan_level = "auto"

=============================================================================
